---- MODULE Spec2Model ----
(***************************************************************************)
(* Model of the in-memory task queue of server/queue/fifo.go: the pending  *)
(* and waitingOnDeps lists, the running table of lease entries, the worker *)
(* registry, and the dispatcher pass (process) with the operations that    *)
(* act on them under the queue's mutex.                                    *)
(***************************************************************************)
EXTENDS Integers, Sequences, FiniteSets, TLC

\* ---------------------------------------------------------------- bounds
MaxPolls == 2      \* number of Poll calls (one worker object per call)
MaxWaits == 1      \* number of Wait calls
MaxTime  == 2      \* the clock runs 0..MaxTime
MaxProcs == 1      \* dispatcher goroutines spawned and not yet run
MaxBatch == 2      \* longest id/task list given to a batch operation

\* ------------------------------------------------------ inputs (model.Task)
Tasks == {"A", "B"}
\* the dependency lists the tasks are created with: B after A; no dependencies;
\* A listing itself
DepsBAfterA == [t \in Tasks |-> IF t = "B" THEN <<"A">> ELSE << >>]
DepsNone == [t \in Tasks |-> << >>]
DepsASelf == [t \in Tasks |-> IF t = "A" THEN <<"A">> ELSE << >>]
Agents == {1, 2}
\* the FilterFn each agent polls with: agent 1 takes any task, agent 2 none labelled like A
Filter(agent, t) == agent = 1 \/ t # "A"
StatusValues == {"success", "failure"}
StatusFailure == "failure"
NoTask == "none"
NoStatus == "none"
NoErr == "nil"
Boom == "boom"

\* the lease duration q.extension (time.Minute * 10): one clock unit is ten minutes
extension == 1

\* ------------------------------------------------------- context semantics
\* cause of a Poll context: none, or the first cancellation that reached it
NotCancelled == "none"
Canceled == "context canceled"
Kicked == "worker was kicked"
CallerCauses == {Canceled}
\* ctx.Err() of a context made by context.WithCancelCause(c)
CtxErr(cause) == IF cause = Kicked THEN Canceled ELSE cause

VARIABLES
    pending,        \* q.pending: sequence of task ids
    waitingOnDeps,  \* q.waitingOnDeps: sequence of task ids
    running,        \* q.running: task id -> index into entries, 0 when absent
    entries,        \* the entry objects still referenced; item = NoTask marks a free cell
    workers,        \* q.workers: set of worker indices
    paused,         \* q.paused
    agentID,        \* task.AgentID, 0 before dispatch
    depStatus,      \* task.DepStatus
    channel,        \* worker.channel (capacity 1)
    wagent,         \* worker.agentID
    cause,          \* state of the context Poll selects on
    pollPc,         \* position of each Poll call
    pollRet,        \* what each Poll call returned
    waits,          \* the Wait calls
    procs,          \* number of `go q.process()` goroutines not yet run
    now,            \* the clock read by time.Now()
    pushed,         \* ids given to Push/PushAtOnce so far
    finishedErr,    \* last err given to Done/Error/ErrorAtOnce per id
    dependencies,   \* task.Dependencies, fixed when the tasks are created
    evictedBy       \* per id, the id list of the Evict/EvictAtOnce call that removed it

vars == <<pending, waitingOnDeps, running, entries, workers, paused, agentID,
          depStatus, channel, wagent, cause, pollPc, pollRet, waits,
          procs, now, pushed, finishedErr, dependencies, evictedBy>>

Dependencies(t) == dependencies[t]

\* ------------------------------------------------------------- helpers
Range(s) == {s[i] : i \in 1..Len(s)}
Min(a, b) == IF a < b THEN a ELSE b
Perms(S) == {s \in [1..Cardinality(S) -> S] : \A i, j \in 1..Cardinality(S) : s[i] = s[j] => i = j}
Reverse(s) == [i \in 1..Len(s) |-> s[Len(s) + 1 - i]]
\* the lists of two or more elements a batch operation is called with
Batches(S, n) == UNION {[1..k -> S] : k \in 2..n}
InjBatches(S, n) == {s \in Batches(S, n) : \A i, j \in 1..Len(s) : s[i] = s[j] => i = j}

\* entry objects live in cells; a cell is free again once its entry is closed and
\* neither q.running nor a blocked Wait still points to it
MaxEntries == MaxPolls + MaxWaits
FreeEntry == [item |-> NoTask, closes |-> 0, error |-> NoErr, deadline |-> 0]
Collect(ents, run, wts) ==
    [i \in 1..MaxEntries |->
        IF /\ ents[i].closes = 1
           /\ \A id \in Tasks : run[id] # i
           /\ \A k \in 1..MaxWaits : ~(wts[k].pc = "select" /\ wts[k].state = i)
        THEN FreeEntry ELSE ents[i]]
NewEntry(ents) == CHOOSE i \in 1..MaxEntries : ents[i].item = NoTask /\ \A j \in 1..(i - 1) : ents[j].item # NoTask
IdleWait == [state |-> 0, fin |-> "none", pc |-> "idle", err |-> NoErr, ctxDone |-> FALSE, blocked |-> FALSE]

\* the part of the state the dispatcher and finished mutate, as one record
Q == [pending |-> pending, waitingOnDeps |-> waitingOnDeps, running |-> running,
      entries |-> entries, workers |-> workers, agentID |-> agentID,
      depStatus |-> depStatus, channel |-> channel]

SetQ(q) ==
    /\ pending' = q.pending
    /\ waitingOnDeps' = q.waitingOnDeps
    /\ running' = q.running
    /\ entries' = Collect(q.entries, q.running, waits)
    /\ workers' = q.workers
    /\ agentID' = q.agentID
    /\ depStatus' = q.depStatus
    /\ channel' = q.channel

Init ==
    /\ pending = << >>
    /\ waitingOnDeps = << >>
    /\ running = [t \in Tasks |-> 0]
    /\ entries = [i \in 1..MaxEntries |-> FreeEntry]
    /\ workers = {}
    /\ paused = FALSE
    /\ agentID = [t \in Tasks |-> 0]
    /\ depStatus = [t \in Tasks |-> [d \in Tasks |-> NoStatus]]
    /\ channel = [w \in 1..MaxPolls |-> NoTask]
    /\ wagent = [w \in 1..MaxPolls |-> 0]
    /\ cause = [w \in 1..MaxPolls |-> NotCancelled]
    /\ pollPc = [w \in 1..MaxPolls |-> "idle"]
    /\ pollRet = [w \in 1..MaxPolls |-> [task |-> NoTask, err |-> NoErr]]
    /\ waits = [k \in 1..MaxWaits |-> IdleWait]
    /\ procs = 0
    /\ now = 0
    /\ pushed = {}
    /\ finishedErr = [t \in Tasks |-> "none"]
    /\ dependencies = DepsBAfterA
    /\ evictedBy = [t \in Tasks |-> << >>]

\* ------------------------------------------------- the dispatcher (process)
Expired(q) == {id \in Tasks : q.running[id] # 0 /\ now > q.entries[q.running[id]].deadline}

\* a sweep that forgets delete(q.running, id)
resubmitExpiredPipelines_keepsRunning(q, order) ==
    [q EXCEPT !.pending = Reverse(order) \o q.pending,
              !.entries = [i \in 1..MaxEntries |->
                              IF \E id \in Range(order) : q.running[id] = i
                              THEN [q.entries[i] EXCEPT !.closes = Min(@ + 1, 2)]
                              ELSE q.entries[i]]]

\* a sweep that uses PushBack
resubmitExpiredPipelines_pushBack(q, order) ==
    [q EXCEPT !.pending = q.pending \o order,
              !.running = [id \in Tasks |-> IF id \in Range(order) THEN 0 ELSE q.running[id]],
              !.entries = [i \in 1..MaxEntries |->
                              IF \E id \in Range(order) : q.running[id] = i
                              THEN [q.entries[i] EXCEPT !.closes = Min(@ + 1, 2)]
                              ELSE q.entries[i]]]

\* order: the order in which the map iteration meets the expired entries
resubmitExpiredPipelines(q, order) ==
    [q EXCEPT !.pending = Reverse(order) \o q.pending,
              !.running = [id \in Tasks |-> IF id \in Range(order) THEN 0 ELSE q.running[id]],
              !.entries = [i \in 1..MaxEntries |->
                              IF \E id \in Range(order) : q.running[id] = i
                              THEN [q.entries[i] EXCEPT !.closes = Min(@ + 1, 2)]
                              ELSE q.entries[i]]]

\* a depsInQueue that skips the task itself among the pending tasks
depsInQueue_excludesSelf(q, task) ==
    \/ \E i \in 1..Len(q.pending) :
           q.pending[i] # task /\ q.pending[i] \in Range(Dependencies(task))
    \/ \E id \in Tasks : q.running[id] # 0 /\ id \in Range(Dependencies(task))

depsInQueue(q, task) ==
    \/ \E i \in 1..Len(q.pending) : q.pending[i] \in Range(Dependencies(task))
    \/ \E id \in Tasks : q.running[id] # 0 /\ id \in Range(Dependencies(task))

\* a filterWaiting that re-admits the waiting tasks and holds none back
filterWaiting_noGate(q) ==
    [q EXCEPT !.pending = q.pending \o q.waitingOnDeps, !.waitingOnDeps = << >>]

filterWaiting(q) ==
    LET q1 == [q EXCEPT !.pending = q.pending \o q.waitingOnDeps]
    IN  [q1 EXCEPT !.waitingOnDeps = SelectSeq(q1.pending, LAMBDA t : depsInQueue(q1, t)),
                   !.pending = SelectSeq(q1.pending, LAMBDA t : ~depsInQueue(q1, t))]

\* an assignToWorker that walks pending from the back
assignToWorker_lastFirst(q) ==
    LET ok(i) == {w \in q.workers : Filter(wagent[w], q.pending[i])}
        idx == {i \in 1..Len(q.pending) : ok(i) # {}}
    IN  IF idx = {} THEN {}
        ELSE LET last == CHOOSE i \in idx : \A j \in idx : i >= j
             IN  {<<last, w>> : w \in ok(last)}

\* the <<index into pending, worker>> pairs assignToWorker may return: the
\* first pending task some worker accepts, with any worker that accepts it
assignToWorker(q) ==
    LET ok(i) == {w \in q.workers : Filter(wagent[w], q.pending[i])}
        idx == {i \in 1..Len(q.pending) : ok(i) # {}}
    IN  IF idx = {} THEN {}
        ELSE LET first == CHOOSE i \in idx : \A j \in idx : i <= j
             IN  {<<first, w>> : w \in ok(first)}

\* a loop body that forgets delete(q.workers, worker)
assign_keepsWorker(q, i, w) ==
    LET task == q.pending[i]
    IN  [q EXCEPT !.agentID[task] = wagent[w],
                  !.pending = SubSeq(q.pending, 1, i - 1) \o SubSeq(q.pending, i + 1, Len(q.pending)),
                  !.entries[NewEntry(q.entries)] = [item |-> task, closes |-> 0, error |-> NoErr,
                                                    deadline |-> now + extension],
                  !.running[task] = NewEntry(q.entries),
                  !.channel[w] = task]

\* the body of the loop in process for one <<pending index, worker>>
assign(q, i, w) ==
    LET task == q.pending[i]
    IN  [q EXCEPT !.agentID[task] = wagent[w],
                  !.workers = @ \ {w},
                  !.pending = SubSeq(q.pending, 1, i - 1) \o SubSeq(q.pending, i + 1, Len(q.pending)),
                  !.entries[NewEntry(q.entries)] = [item |-> task, closes |-> 0, error |-> NoErr,
                                                    deadline |-> now + extension],
                  !.running[task] = NewEntry(q.entries),
                  !.channel[w] = task]

RECURSIVE assignLoop(_)
assignLoop(q) ==
    LET c == assignToWorker(q)
    IN  IF c = {} THEN {q}
        ELSE UNION {assignLoop(assign(q, p[1], p[2])) : p \in c}

\* a pass without the paused check
process_ignoresPause(q) ==
    UNION {assignLoop(filterWaiting(resubmitExpiredPipelines(q, order))) :
               order \in Perms(Expired(q))}

\* a pass that checks paused only after the expiry sweep
process_sweepsWhenPaused(q) ==
    IF paused THEN {resubmitExpiredPipelines(q, order) : order \in Perms(Expired(q))}
    ELSE UNION {assignLoop(filterWaiting(resubmitExpiredPipelines(q, order))) :
                    order \in Perms(Expired(q))}

\* the states one pass of process may leave the queue in
process(q) ==
    IF paused THEN {q}
    ELSE UNION {assignLoop(filterWaiting(resubmitExpiredPipelines(q, order))) :
                    order \in Perms(Expired(q))}

\* ------------------------------------------------------------ finished
removeFromPending(p, taskID) ==
    LET idx == {i \in 1..Len(p) : p[i] = taskID}
    IN  IF idx = {} THEN p
        ELSE LET first == CHOOSE i \in idx : \A j \in idx : i <= j
             IN  SubSeq(p, 1, first - 1) \o SubSeq(p, first + 1, Len(p))

\* an update that forgets the loop over q.waitingOnDeps
updateDepStatusInQueue_skipsWaiting(q, taskID, status) ==
    LET inQueue == Range(q.pending) \cup {id \in Tasks : q.running[id] # 0}
    IN  [q EXCEPT !.depStatus = [t \in Tasks |->
            IF t \in inQueue /\ taskID \in Range(Dependencies(t))
            THEN [q.depStatus[t] EXCEPT ![taskID] = status]
            ELSE q.depStatus[t]]]

updateDepStatusInQueue(q, taskID, status) ==
    LET inQueue == Range(q.pending) \cup {id \in Tasks : q.running[id] # 0}
                     \cup Range(q.waitingOnDeps)
    IN  [q EXCEPT !.depStatus = [t \in Tasks |->
            IF t \in inQueue /\ taskID \in Range(Dependencies(t))
            THEN [q.depStatus[t] EXCEPT ![taskID] = status]
            ELSE q.depStatus[t]]]

\* an iteration that forgets delete(q.running, id)
finishedOne_keepsRunning(q, id, exitStatus, err) ==
    LET e == q.running[id]
        q1 == IF e # 0
              THEN [q EXCEPT !.entries[e].error = err,
                             !.entries[e].closes = Min(@ + 1, 2)]
              ELSE [q EXCEPT !.pending = removeFromPending(q.pending, id)]
    IN  updateDepStatusInQueue(q1, id, exitStatus)

\* one iteration of the loop in finished
finishedOne(q, id, exitStatus, err) ==
    LET e == q.running[id]
        q1 == IF e # 0
              THEN [q EXCEPT !.entries[e].error = err,
                             !.entries[e].closes = Min(@ + 1, 2),
                             !.running[id] = 0]
              ELSE [q EXCEPT !.pending = removeFromPending(q.pending, id)]
    IN  updateDepStatusInQueue(q1, id, exitStatus)

RECURSIVE finished(_, _, _, _)
finished(q, ids, exitStatus, err) ==
    IF ids = << >> THEN q
    ELSE finished(finishedOne(q, Head(ids), exitStatus, err), Tail(ids), exitStatus, err)

\* ------------------------------------------------------------ evict
\* an EvictAtOnce that goes on after the first removal
RECURSIVE EvictAtOnceResult_removesAll(_, _)
EvictAtOnceResult_removesAll(p, ids) ==
    IF ids = << >> THEN [pending |-> p, err |-> "ErrNotFound"]
    ELSE LET r == EvictAtOnceResult_removesAll(removeFromPending(p, Head(ids)), Tail(ids))
         IN  IF Head(ids) \in Range(p) THEN [r EXCEPT !.err = NoErr] ELSE r

RECURSIVE EvictAtOnceResult(_, _)
EvictAtOnceResult(p, ids) ==
    IF ids = << >> THEN [pending |-> p, err |-> "ErrNotFound"]
    ELSE IF Head(ids) \in Range(p)
         THEN [pending |-> removeFromPending(p, Head(ids)), err |-> NoErr]
         ELSE EvictAtOnceResult(p, Tail(ids))

\* ------------------------------------------------------------ actions
Spawn == procs' = procs + 1

Push(task) ==
    /\ task \notin pushed
    /\ procs < MaxProcs
    /\ pending' = Append(pending, task)
    /\ pushed' = pushed \cup {task}
    /\ Spawn
    /\ UNCHANGED <<dependencies, evictedBy, waitingOnDeps, running, entries, workers, paused, agentID, depStatus,
                   channel, wagent, cause, pollPc, pollRet, waits, now, finishedErr>>

PushAtOnce(tasks) ==
    /\ Range(tasks) \cap pushed = {}
    /\ procs < MaxProcs
    /\ pending' = pending \o tasks
    /\ pushed' = pushed \cup Range(tasks)
    /\ Spawn
    /\ UNCHANGED <<dependencies, evictedBy, waitingOnDeps, running, entries, workers, paused, agentID, depStatus,
                   channel, wagent, cause, pollPc, pollRet, waits, now, finishedErr>>

\* Poll up to `go q.process()`: the worker is registered under the lock
PollRegister(w, agent) ==
    /\ pollPc[w] = "idle"
    /\ \A v \in 1..(w - 1) : pollPc[v] # "idle"
    /\ procs < MaxProcs
    /\ wagent' = [wagent EXCEPT ![w] = agent]
    /\ workers' = workers \cup {w}
    /\ pollPc' = [pollPc EXCEPT ![w] = "select"]
    /\ Spawn
    /\ UNCHANGED <<dependencies, evictedBy, pending, waitingOnDeps, running, entries, paused, agentID, depStatus,
                   channel, cause, pollRet, waits, now, pushed, finishedErr>>

\* the caller's context c is cancelled or runs out
CancelPoll(w, why) ==
    /\ pollPc[w] = "select"
    /\ cause[w] = NotCancelled
    /\ cause' = [cause EXCEPT ![w] = why]
    /\ UNCHANGED <<dependencies, evictedBy, pending, waitingOnDeps, running, entries, workers, paused, agentID,
                   depStatus, channel, wagent, pollPc, pollRet, waits, procs, now,
                   pushed, finishedErr>>

\* select takes case <-ctx.Done()
PollCtxDone(w) ==
    /\ pollPc[w] = "select"
    /\ cause[w] # NotCancelled
    /\ pollPc' = [pollPc EXCEPT ![w] = "ctxdone"]
    /\ UNCHANGED <<dependencies, evictedBy, pending, waitingOnDeps, running, entries, workers, paused, agentID,
                   depStatus, channel, wagent, cause, pollRet, waits, procs, now,
                   pushed, finishedErr>>

\* a ctx.Done() branch that forgets delete(q.workers, w)
PollCancelled_keepsWorker(ws, w) == [workers |-> ws, ret |-> [task |-> NoTask, err |-> CtxErr(cause[w])]]

\* what Poll leaves and returns on the ctx.Done() branch
PollCancelled(ws, w) == [workers |-> ws \ {w}, ret |-> [task |-> NoTask, err |-> CtxErr(cause[w])]]

PollDeregister(w) ==
    /\ pollPc[w] = "ctxdone"
    /\ workers' = PollCancelled(workers, w).workers
    /\ pollRet' = [pollRet EXCEPT ![w] = PollCancelled(workers, w).ret]
    /\ pollPc' = [pollPc EXCEPT ![w] = "returned"]
    /\ UNCHANGED <<dependencies, evictedBy, pending, waitingOnDeps, running, entries, paused, agentID, depStatus,
                   channel, wagent, cause, waits, procs, now, pushed, finishedErr>>

\* select takes case t := <-w.channel
PollReceive(w) ==
    /\ pollPc[w] = "select"
    /\ channel[w] # NoTask
    /\ pollRet' = [pollRet EXCEPT ![w] = [task |-> channel[w], err |-> NoErr]]
    /\ channel' = [channel EXCEPT ![w] = NoTask]
    /\ pollPc' = [pollPc EXCEPT ![w] = "returned"]
    /\ UNCHANGED <<dependencies, evictedBy, pending, waitingOnDeps, running, entries, workers, paused, agentID,
                   depStatus, wagent, cause, waits, procs, now, pushed, finishedErr>>

Finish(ids, exitStatus, err) ==
    /\ SetQ(finished(Q, ids, exitStatus, err))
    /\ UNCHANGED <<dependencies, evictedBy, paused, wagent, cause, pollPc, pollRet, waits, procs, now, pushed>>

Done(id, exitStatus) == Finish(<<id>>, exitStatus, NoErr) /\ UNCHANGED finishedErr

Error(id, err) == Finish(<<id>>, StatusFailure, err) /\ UNCHANGED finishedErr

ErrorAtOnce(ids, err) == Finish(ids, StatusFailure, err) /\ UNCHANGED finishedErr

\* the same calls, with the err of the call kept as history for the Wait calls
Record(ids, err) == finishedErr' = [t \in Tasks |-> IF t \in Range(ids) THEN err ELSE finishedErr[t]]

DoneRecorded(id, exitStatus) == Finish(<<id>>, exitStatus, NoErr) /\ Record(<<id>>, NoErr)

ErrorRecorded(id, err) == Finish(<<id>>, StatusFailure, err) /\ Record(<<id>>, err)

EvictAtOnce(ids) ==
    /\ pending' = EvictAtOnceResult(pending, ids).pending
    /\ UNCHANGED <<dependencies, evictedBy, waitingOnDeps, running, entries, workers, paused, agentID, depStatus,
                   channel, wagent, cause, pollPc, pollRet, waits, procs, now,
                   pushed, finishedErr>>

Evict(id) == EvictAtOnce(<<id>>)

\* the same calls, with the id list of the call kept as history on the task
\* it removed
EvictAtOnceRecorded(ids) ==
    LET r == EvictAtOnceResult(pending, ids)
    IN  /\ pending' = r.pending
        /\ evictedBy' = [t \in Tasks |->
                IF t \in Range(pending) \ Range(r.pending) THEN ids ELSE evictedBy[t]]
        /\ UNCHANGED <<dependencies, waitingOnDeps, running, entries, workers, paused, agentID,
                       depStatus, channel, wagent, cause, pollPc, pollRet, waits, procs, now,
                       pushed, finishedErr>>

EvictRecorded(id) == EvictAtOnceRecorded(<<id>>)

\* an Extend that refuses a lease whose deadline has passed
ExtendResult_refusesExpired(q, id) ==
    IF q.running[id] # 0 /\ now <= q.entries[q.running[id]].deadline
    THEN [entries |-> [q.entries EXCEPT ![q.running[id]].deadline = now + extension], err |-> NoErr]
    ELSE [entries |-> q.entries, err |-> "ErrNotFound"]

ExtendResult(q, id) ==
    IF q.running[id] # 0
    THEN [entries |-> [q.entries EXCEPT ![q.running[id]].deadline = now + extension], err |-> NoErr]
    ELSE [entries |-> q.entries, err |-> "ErrNotFound"]

Extend(id) ==
    /\ entries' = ExtendResult(Q, id).entries
    /\ UNCHANGED <<dependencies, evictedBy, pending, waitingOnDeps, running, workers, paused, agentID, depStatus,
                   channel, wagent, cause, pollPc, pollRet, waits, procs, now,
                   pushed, finishedErr>>

Pause ==
    /\ paused' = TRUE
    /\ UNCHANGED <<dependencies, evictedBy, pending, waitingOnDeps, running, entries, workers, agentID, depStatus,
                   channel, wagent, cause, pollPc, pollRet, waits, procs, now,
                   pushed, finishedErr>>

Resume ==
    /\ procs < MaxProcs
    /\ paused' = FALSE
    /\ Spawn
    /\ UNCHANGED <<dependencies, evictedBy, pending, waitingOnDeps, running, entries, workers, agentID, depStatus,
                   channel, wagent, cause, pollPc, pollRet, waits, now, pushed,
                   finishedErr>>

KickAgentWorkers(agent) ==
    LET kicked == {w \in workers : wagent[w] = agent}
    IN  /\ cause' = [w \in 1..MaxPolls |->
                        IF w \in kicked /\ cause[w] = NotCancelled THEN Kicked ELSE cause[w]]
        /\ workers' = workers \ kicked
        /\ UNCHANGED <<dependencies, evictedBy, pending, waitingOnDeps, running, entries, paused, agentID, depStatus,
                       channel, wagent, pollPc, pollRet, waits, procs, now, pushed,
                       finishedErr>>

\* one spawned `go q.process()` runs, start to end under the lock
Process ==
    /\ procs > 0
    /\ procs' = procs - 1
    /\ \E q \in process(Q) : SetQ(q)
    /\ UNCHANGED <<dependencies, evictedBy, paused, wagent, cause, pollPc, pollRet, waits, now, pushed,
                   finishedErr>>

\* ------------------------------------------------------------ Wait
\* Wait up to the select: the entry is looked up under the lock; with no
\* entry the call returns nil at once
WaitLookup(run, id) == run[id]

\* a Wait that selects even when it found no entry
WaitAfterLookup_alwaysSelects(state) == "select"

\* where Wait goes after the lookup: into the select, or to `return nil`
WaitAfterLookup(state) == IF state # 0 THEN "select" ELSE "returned"

WaitStart(k, id) ==
    /\ waits[k].pc = "idle"
    /\ \A j \in 1..(k - 1) : waits[j].pc # "idle"
    /\ LET state == WaitLookup(running, id)
       IN  waits' = [waits EXCEPT ![k] =
                [state |-> state, fin |-> finishedErr[id],
                 pc |-> WaitAfterLookup(state),
                 err |-> NoErr, ctxDone |-> FALSE, blocked |-> state # 0]]
    /\ UNCHANGED <<dependencies, evictedBy, pending, waitingOnDeps, running, entries, workers, paused, agentID,
                   depStatus, channel, wagent, cause, pollPc, pollRet, procs, now,
                   pushed, finishedErr>>

\* select takes case <-state.done
WaitDone(k) ==
    /\ waits[k].pc = "select"
    /\ entries[waits[k].state].closes > 0
    /\ waits' = [waits EXCEPT ![k].pc = "returned", ![k].state = 0,
                              ![k].err = entries[waits[k].state].error]
    /\ entries' = Collect(entries, running, waits')
    /\ UNCHANGED <<dependencies, evictedBy, pending, waitingOnDeps, running, workers, paused, agentID,
                   depStatus, channel, wagent, cause, pollPc, pollRet, procs, now,
                   pushed, finishedErr>>

\* what Wait returns when select takes case <-c.Done()
WaitCtxErr(ctxErr) == NoErr

WaitCtxDone(k, ctxErr) ==
    /\ waits[k].pc = "select"
    /\ waits' = [waits EXCEPT ![k].pc = "returned", ![k].state = 0, ![k].ctxDone = TRUE,
                              ![k].err = WaitCtxErr(ctxErr)]
    /\ entries' = Collect(entries, running, waits')
    /\ UNCHANGED <<dependencies, evictedBy, pending, waitingOnDeps, running, workers, paused, agentID,
                   depStatus, channel, wagent, cause, pollPc, pollRet, procs, now,
                   pushed, finishedErr>>

\* time passes; the clock is only read against the deadline of a lease
Tick ==
    /\ now < MaxTime
    /\ \E id \in Tasks : running[id] # 0
    /\ now' = now + 1
    /\ UNCHANGED <<dependencies, evictedBy, pending, waitingOnDeps, running, entries, workers, paused, agentID,
                   depStatus, channel, wagent, cause, pollPc, pollRet, waits, procs,
                   pushed, finishedErr>>

Next ==
    \/ \E t \in Tasks : Push(t)
    \/ \E ts \in InjBatches(Tasks, MaxBatch) : PushAtOnce(ts)
    \/ \E w \in 1..MaxPolls, a \in Agents : PollRegister(w, a)
    \/ \E w \in 1..MaxPolls, why \in CallerCauses : CancelPoll(w, why)
    \/ \E w \in 1..MaxPolls : PollCtxDone(w)
    \/ \E w \in 1..MaxPolls : PollDeregister(w)
    \/ \E w \in 1..MaxPolls : PollReceive(w)
    \/ \E id \in Tasks, s \in StatusValues : Done(id, s)
    \/ \E id \in Tasks : Error(id, Boom)
    \/ \E ids \in Batches(Tasks, MaxBatch) : ErrorAtOnce(ids, Boom)
    \/ \E id \in Tasks : Evict(id)
    \/ \E ids \in Batches(Tasks, MaxBatch) : EvictAtOnce(ids)
    \/ \E id \in Tasks : Extend(id)
    \/ Pause
    \/ Resume
    \/ \E a \in Agents : KickAgentWorkers(a)
    \/ Process
    \/ Tick

Spec == Init /\ [][Next]_vars

\* the queue with callers of Wait
WaitNext ==
    \/ \E t \in Tasks : Push(t)
    \/ \E w \in 1..MaxPolls, a \in Agents : PollRegister(w, a)
    \/ \E w \in 1..MaxPolls : PollReceive(w)
    \/ \E id \in Tasks, s \in StatusValues : DoneRecorded(id, s)
    \/ \E id \in Tasks : ErrorRecorded(id, Boom)
    \/ \E id \in Tasks : Extend(id)
    \/ Process
    \/ Tick
    \/ \E k \in 1..MaxWaits, id \in Tasks : WaitStart(k, id)
    \/ \E k \in 1..MaxWaits : WaitDone(k)
    \/ \E k \in 1..MaxWaits, e \in CallerCauses : WaitCtxDone(k, e)

WaitSpec == Init /\ [][WaitNext]_vars

\* the queue with the history of its evictions
EvictNext ==
    \/ \E t \in Tasks : Push(t)
    \/ \E ts \in InjBatches(Tasks, MaxBatch) : PushAtOnce(ts)
    \/ \E w \in 1..MaxPolls, a \in Agents : PollRegister(w, a)
    \/ \E w \in 1..MaxPolls : PollReceive(w)
    \/ \E id \in Tasks : EvictRecorded(id)
    \/ \E ids \in Batches(Tasks, MaxBatch) : EvictAtOnceRecorded(ids)
    \/ \E id \in Tasks : Extend(id)
    \/ Pause
    \/ Resume
    \/ Process
    \/ Tick

EvictSpec == Init /\ [][EvictNext]_vars

\* the queue with tasks of other dependency lists: none, and a task that
\* lists itself
DepsInit ==
    \E deps \in {DepsBAfterA, DepsNone, DepsASelf} :
        /\ dependencies = deps
        /\ pending = << >>
        /\ waitingOnDeps = << >>
        /\ running = [t \in Tasks |-> 0]
        /\ entries = [i \in 1..MaxEntries |-> FreeEntry]
        /\ workers = {}
        /\ paused = FALSE
        /\ agentID = [t \in Tasks |-> 0]
        /\ depStatus = [t \in Tasks |-> [d \in Tasks |-> NoStatus]]
        /\ channel = [w \in 1..MaxPolls |-> NoTask]
        /\ wagent = [w \in 1..MaxPolls |-> 0]
        /\ cause = [w \in 1..MaxPolls |-> NotCancelled]
        /\ pollPc = [w \in 1..MaxPolls |-> "idle"]
        /\ pollRet = [w \in 1..MaxPolls |-> [task |-> NoTask, err |-> NoErr]]
        /\ waits = [k \in 1..MaxWaits |-> IdleWait]
        /\ procs = 0
        /\ now = 0
        /\ pushed = {}
        /\ finishedErr = [t \in Tasks |-> "none"]
        /\ evictedBy = [t \in Tasks |-> << >>]

DepsNext ==
    \/ \E t \in Tasks : Push(t)
    \/ \E ts \in InjBatches(Tasks, MaxBatch) : PushAtOnce(ts)
    \/ \E w \in 1..MaxPolls, a \in Agents : PollRegister(w, a)
    \/ \E w \in 1..MaxPolls : PollReceive(w)
    \/ \E id \in Tasks, s \in StatusValues : Done(id, s)
    \/ Pause
    \/ Resume
    \/ Process
    \/ Tick

DepsSpec == DepsInit /\ [][DepsNext]_vars

\* ============================================================ properties
InPending(id) == id \in Range(pending)
InWaiting(id) == id \in Range(waitingOnDeps)
InRunning(id) == running[id] # 0
\* a step of a dispatcher goroutine: nothing else takes one off procs
ProcessStep == procs' < procs
\* the ids a step leases: those it gives a new entry in running
Leased ==
    {id \in Tasks : running'[id] # 0 /\ (running[id] = 0 \/ (ProcessStep /\ ~paused /\ id \in Expired(Q)))}
\* the tasks in one of the three collections of q
QueuedIn(q) == Range(q.pending) \cup Range(q.waitingOnDeps) \cup {t \in Tasks : q.running[t] # 0}

\* C1: in every reachable state, with each task id pushed at most once, no
\* task id is in more than one of pending, waitingOnDeps and running.
C1_OnePlace ==
    \A id \in Tasks :
        /\ ~(InPending(id) /\ InWaiting(id))
        /\ ~(InPending(id) /\ InRunning(id))
        /\ ~(InWaiting(id) /\ InRunning(id))

\* A was leased, its lease expired and the sweep put it back into pending,
\* while B is held back on it
C1_Witness ==
    /\ InPending("A") /\ agentID["A"] # 0
    /\ InWaiting("B")

\* C2: while paused is true no step assigns a task: no id enters running,
\* no task leaves pending for running and no delivery slot is written.
C2_NoAssignWhilePaused ==
    [][paused =>
        /\ \A id \in Tasks : ~InRunning(id) => running'[id] = 0
        /\ \A w \in 1..MaxPolls : channel'[w] = channel[w] \/ channel'[w] = NoTask]_vars

\* paused, a task pending, a worker registered that accepts it, its context
\* live, and every spawned pass has run
C2_Witness ==
    /\ paused /\ procs = 0
    /\ pending # << >>
    /\ \E w \in workers : Filter(wagent[w], pending[1]) /\ cause[w] = NotCancelled

C4_Original ==
    ( /\ InWaiting("B")
      /\ finishedErr["A"] # "none"
      /\ ~InPending("A") /\ ~InRunning("A") /\ ~InWaiting("A")
      /\ ~paused
      /\ \E w \in workers : pollPc[w] = "select" /\ cause[w] = NotCancelled
                              /\ channel[w] = NoTask /\ Filter(wagent[w], "B") )
    => procs > 0

\* C5 as stated: a Wait(id) that starts after Done/Error(id) returns at once
\* with the err of that call.
C5_Original ==
    \A k \in 1..MaxWaits :
        (waits[k].pc # "idle" /\ waits[k].fin # "none")
        => (~waits[k].blocked /\ waits[k].pc = "returned" /\ waits[k].err = waits[k].fin)

\* C5 amended: a Wait(id) that starts after Done/Error(id), with id not in
\* running at that moment, returns at once with nil, also when the call was
\* Error(id, err) with a non-nil err.
C5_ReturnsNil ==
    [][\A k \in 1..MaxWaits, id \in Tasks :
        (WaitStart(k, id) /\ finishedErr[id] # "none" /\ ~InRunning(id))
        => (waits'[k].pc = "returned" /\ waits'[k].err = NoErr /\ ~waits'[k].blocked)]_vars

\* a Wait that started after Error(id, boom) and returned nil without blocking
C5_Witness ==
    \E k \in 1..MaxWaits :
        waits[k].fin = Boom /\ ~waits[k].blocked /\ waits[k].pc = "returned"
        /\ waits[k].err = NoErr

\* C6 as stated: a Wait blocked on a lease that has not ended, whose ctx is
\* cancelled, returns a non-nil error.
C6_Original ==
    [][\A k \in 1..MaxWaits :
        (waits[k].pc = "select" /\ entries[waits[k].state].closes = 0 /\ waits'[k].ctxDone)
        => waits'[k].err # NoErr]_vars

\* C7 as stated: a Poll ended by KickAgentWorkers returns the kick cause.
C7_Original ==
    \A w \in 1..MaxPolls :
        (pollPc[w] = "returned" /\ cause[w] = Kicked) => pollRet[w].err = Kicked

\* C8: once a Poll has returned an error its worker is not in workers, and
\* no later step writes its delivery slot.
C8_GoneAfterError ==
    [][\A w \in 1..MaxPolls :
        (pollPc'[w] = "returned" /\ pollRet'[w].err # NoErr)
        => /\ w \notin workers'
           /\ pollPc[w] = "returned" => channel'[w] = channel[w]]_vars

\* a Poll returned an error with an empty slot, and afterwards a pass ran,
\* not paused, with a task pending that its filter accepts
C8_Witness ==
    \E w \in 1..MaxPolls :
        /\ pollPc[w] = "returned" /\ pollRet[w].err # NoErr /\ channel[w] = NoTask
        /\ ~paused /\ procs = 0
        /\ pending # << >> /\ Filter(wagent[w], pending[1])

\* C9: the sweep of a pass that is not paused, for every running entry past
\* its deadline: closes done once with a nil error, deletes the entry and
\* puts the task in front of all that was pending; after the pass the task
\* is in pending (ahead of the tasks that were pending before), held in
\* waitingOnDeps, or leased anew with a fresh deadline.
C9_Sweep ==
    [][(ProcessStep /\ ~paused) =>
        \A id \in Expired(Q) :
            /\ \A order \in Perms(Expired(Q)) :
                   LET s == resubmitExpiredPipelines(Q, order)
                       n == Cardinality(Expired(Q))
                   IN  /\ s.running[id] = 0
                       /\ s.entries[running[id]].closes = 1
                       /\ s.entries[running[id]].error = NoErr
                       /\ Range(SubSeq(s.pending, 1, n)) = Expired(Q)
                       /\ SubSeq(s.pending, n + 1, Len(s.pending)) = pending
            /\ \/ running'[id] = 0
               \/ /\ entries'[running'[id]].closes = 0
                  /\ entries'[running'[id]].deadline = now + extension
            /\ id \in Range(pending') \cup Range(waitingOnDeps') \/ running'[id] # 0
            /\ \A i, j \in 1..Len(pending') :
                   (pending'[i] \in Range(pending) /\ pending'[j] = id) => j < i]_vars

\* A was delivered to one Poll, its lease expired, and it was delivered
\* again to a second Poll
C9_Witness ==
    /\ pollRet[1].task = "A" /\ pollRet[2].task = "A"
    /\ InRunning("A")

\* C10: no done channel is closed twice, every entry in running is unclosed,
\* and an entry that has left running has been closed once.
C10_ClosedOnce ==
    \A i \in 1..MaxEntries :
        entries[i].item # NoTask =>
            /\ entries[i].closes <= 1
            /\ entries[i].closes = 0 <=> \E id \in Tasks : running[id] = i
            /\ \A id \in Tasks : running[id] = i => entries[i].item = id

\* A was leased twice, the first lease ended by the sweep, and the second
\* lease has ended too
C10_Witness ==
    /\ pollRet[1].task = "A" /\ pollRet[2].task = "A"
    /\ ~InRunning("A") /\ ~InPending("A")

\* C11: when the dispatcher leases a task (moves it from pending to running),
\* none of the ids in its dependency list is in pending, waitingOnDeps or
\* running; and only a dispatcher pass leases.
C11_DepGate ==
    [][/\ Leased # {} => ProcessStep
       /\ \A id \in Leased : \A d \in Range(Dependencies(id)) :
              /\ d \notin Range(pending) \cup Range(pending')
              /\ d \notin Range(waitingOnDeps) \cup Range(waitingOnDeps')
              /\ running[d] = 0 /\ running'[d] = 0]_vars

\* B is leased after its prerequisite A was finished
C11_Witness ==
    /\ InRunning("B") /\ depStatus["B"]["A"] # NoStatus
    /\ ~InPending("A") /\ ~InWaiting("A") /\ ~InRunning("A")

\* C12: in every reachable state, Done(id, s), Error(id) and ErrorAtOnce(ids)
\* leave depStatus[id] set to the outcome (s; failure for Error/ErrorAtOnce)
\* on every task that is then in pending, running or waitingOnDeps and lists
\* id as a dependency, wherever the finished id was; the update is part of
\* the call, so it precedes every later delivery.
C12_DepStatus ==
    /\ \A id \in Tasks, s \in StatusValues :
           LET q == finished(Q, <<id>>, s, NoErr)
           IN  \A t \in QueuedIn(q) :
                   id \in Range(Dependencies(t)) => q.depStatus[t][id] = s
    /\ \A id \in Tasks :
           LET q == finished(Q, <<id>>, StatusFailure, Boom)
           IN  \A t \in QueuedIn(q) :
                   id \in Range(Dependencies(t)) => q.depStatus[t][id] = StatusFailure
    /\ \A ids \in Batches(Tasks, MaxBatch) :
           LET q == finished(Q, ids, StatusFailure, Boom)
           IN  \A t \in QueuedIn(q), id \in Range(ids) :
                   id \in Range(Dependencies(t)) => q.depStatus[t][id] = StatusFailure

\* B is held in waitingOnDeps and carries the failure of A, which is gone
C12_Witness ==
    /\ InWaiting("B") /\ depStatus["B"]["A"] = StatusFailure
    /\ ~InPending("A") /\ ~InRunning("A")

\* the id lists Evict and EvictAtOnce are called with
IdLists == {<<t>> : t \in Tasks} \cup Batches(Tasks, MaxBatch)
\* what a step of EvictRecorded/EvictAtOnceRecorded removes
Evicted == {t \in Tasks : evictedBy'[t] # evictedBy[t]}

C15_Original ==
    [][\A id \in Tasks :
        ( /\ id \in pushed /\ finishedErr[id] # "none" /\ id \notin QueuedIn(Q)
          /\ \/ \E s \in StatusValues : DoneRecorded(id, s)
             \/ ErrorRecorded(id, Boom) )
        => UNCHANGED <<pending, waitingOnDeps, running, workers, depStatus>>]_vars

\* C16: Extend(id) returns NotFound and changes nothing when id is not in
\* running; when it is, Extend returns nil and sets the deadline of that
\* entry, and nothing else, to now + extension, also when the old deadline
\* has passed and no sweep has run. An Extend step leaves pending,
\* waitingOnDeps and running as they are.
C16_Extend ==
    /\ [](\A id \in Tasks :
            LET r == ExtendResult(Q, id)
            IN  IF InRunning(id)
                THEN /\ r.err = NoErr
                     /\ r.entries = [entries EXCEPT ![running[id]].deadline = now + extension]
                ELSE r.err = "ErrNotFound" /\ r.entries = entries)
    /\ [][\A id \in Tasks : Extend(id) =>
             /\ UNCHANGED <<pending, waitingOnDeps, running, workers, channel>>
             /\ \A i \in 1..MaxEntries :
                    /\ entries'[i].item = entries[i].item
                    /\ entries'[i].closes = entries[i].closes
                    /\ entries'[i].deadline # entries[i].deadline => running[id] = i]_vars

\* one worker only was ever registered and it holds A, leased at time 0; the
\* clock is two leases on and the deadline of A lies ahead: the lease was
\* extended after it had expired, unswept
C16_Witness ==
    /\ now = 2 * extension /\ InRunning("A")
    /\ entries[running["A"]].deadline = now + extension
    /\ pollPc[2] = "idle" /\ agentID["B"] = 0

\* C19: every worker in workers has an empty delivery slot and its Poll is
\* still waiting; a slot is written only by a dispatcher pass, only while it
\* is empty and its worker is in workers, and that step takes the worker out
\* of workers; a worker enters workers only when its Poll starts. So each
\* worker is sent at most one task and the send into the slot of capacity
\* one finds it empty.
C19_EmptySlot ==
    /\ [](\A w \in workers : channel[w] = NoTask /\ pollPc[w] \in {"select", "ctxdone"})
    /\ [][\A w \in 1..MaxPolls :
             /\ (channel'[w] # channel[w] /\ channel'[w] # NoTask)
                => /\ ProcessStep /\ ~paused
                   /\ channel[w] = NoTask
                   /\ w \in workers /\ w \notin workers'
             /\ (w \notin workers /\ w \in workers') => pollPc[w] = "idle"]_vars

\* a pass has filled the slot of one worker and taken it out of workers,
\* while another worker, which rejects the task still pending, stays in
\* workers with an empty slot
C19_Witness ==
    \E w, v \in 1..MaxPolls :
        /\ channel[w] # NoTask /\ w \notin workers
        /\ v \in workers /\ channel[v] = NoTask
        /\ pending # << >> /\ ~Filter(wagent[v], pending[1])
        /\ ~paused /\ procs = 0

\* C20 as stated: no Poll has returned an error while its delivery slot
\* holds a task that is recorded in running with the agentID of its worker.
C20_Original ==
    \A w \in 1..MaxPolls :
        (pollPc[w] = "returned" /\ pollRet[w].err # NoErr)
        => ~( /\ channel[w] # NoTask
              /\ running[channel[w]] # 0
              /\ agentID[channel[w]] = wagent[w] )

\* no task in pending of q is accepted by a worker in workers of q
Maximal(q) ==
    \A i \in 1..Len(q.pending), w \in q.workers : ~Filter(wagent[w], q.pending[i])

\* every assignment the loop of process makes from q on takes a task its
\* worker accepts with no accepted task before it, and the loop ends in a
\* state that is Maximal
RECURSIVE GreedyFrom(_)
GreedyFrom(q) ==
    LET c == assignToWorker(q)
    IN  /\ c = {} => Maximal(q)
        /\ \A p \in c :
               /\ p[2] \in q.workers /\ Filter(wagent[p[2]], q.pending[p[1]])
               /\ \A j \in 1..(p[1] - 1), v \in q.workers : ~Filter(wagent[v], q.pending[j])
               /\ GreedyFrom(assign(q, p[1], p[2]))

\* C17: in every reachable state a pass that is not paused would, after
\* its sweep and dep-gating, assign each time the earliest pending task that
\* some registered worker accepts and go on until no pending task is
\* accepted by a registered worker; and after every such pass no pair of a
\* pending task and a registered worker with an accepting filter is left,
\* and the tasks it leaves in pending keep their order.
C17_Matching ==
    /\ [](\A order \in Perms(Expired(Q)) :
            GreedyFrom(filterWaiting(resubmitExpiredPipelines(Q, order))))
    /\ [][(ProcessStep /\ ~paused) =>
             /\ Maximal([pending |-> pending', workers |-> workers'])
             /\ \A i, j \in 1..Len(pending') :
                    (i < j /\ pending'[i] \in Range(pending) /\ pending'[j] \in Range(pending)
                           /\ pending'[i] \notin Expired(Q) /\ pending'[j] \notin Expired(Q))
                    => \E k, l \in 1..Len(pending) :
                           k < l /\ pending[k] = pending'[i] /\ pending[l] = pending'[j]]_vars

\* the tasks are independent; A, leased to agent 1 at time 0, was swept to
\* the front of pending at time 2, where no worker left accepts it, and B
\* behind it was leased to agent 2 at time 2
C17_Witness ==
    /\ dependencies = DepsNone
    /\ now = 2 * extension /\ ~paused
    /\ pending = <<"A">> /\ agentID["A"] = 1
    /\ InRunning("B") /\ agentID["B"] = 2
    /\ entries[running["B"]].deadline = now + extension

\* C18 as stated: for a pending task, depsInQueue is true iff one of its
\* dependency ids is the id of another pending task or a key of running.
C18_Original ==
    \A task \in Range(pending) :
        depsInQueue(Q, task) <=>
            \E d \in Range(Dependencies(task)) :
                (d # task /\ d \in Range(pending)) \/ running[d] # 0

\* C18 amended: for a pending task, depsInQueue is true iff one of its
\* dependency ids is the id of a pending task, the task itself included, or
\* a key of running; a task that lists its own id is held in waitingOnDeps
\* by every pass that is not paused and is never leased.
C18_SelfHeld ==
    /\ [](/\ \A task \in Range(pending) :
                depsInQueue(Q, task) <=>
                    \E d \in Range(Dependencies(task)) :
                        d \in Range(pending) \/ running[d] # 0
          /\ \A t \in Tasks :
                t \in Range(Dependencies(t)) => running[t] = 0 /\ agentID[t] = 0)
    /\ [][(ProcessStep /\ ~paused) =>
             \A t \in Range(pending) \cup Range(waitingOnDeps) :
                 t \in Range(Dependencies(t)) => t \in Range(waitingOnDeps')]_vars

\* A lists itself and is held in waitingOnDeps although a worker that
\* accepts it is registered and every spawned pass has run
C18_Witness ==
    /\ "A" \in Range(Dependencies("A"))
    /\ InWaiting("A")
    /\ ~paused /\ procs = 0
    /\ \E w \in workers : Filter(wagent[w], "A") /\ pollPc[w] = "select"

\* the lease of t in running belongs to a later holder than the Poll w that
\* was given t before: w returned t for one agent, and the entry now in
\* running was made for the worker v of another agent
Superseded(t, w, v) ==
    /\ w # v
    /\ pollPc[w] = "returned" /\ pollRet[w].task = t
    /\ running[t] # 0 /\ entries[running[t]].closes = 0
    /\ agentID[t] = wagent[v] /\ wagent[v] # wagent[w]
    /\ (channel[v] = t \/ (pollPc[v] = "returned" /\ pollRet[v].task = t))

\* C21 as stated: once the lease of a task to one agent has expired and the
\* task is leased to another agent, a Done, Error or Extend for that id (the
\* call of the old holder) leaves the running entry of the new lease in
\* place, unclosed and with its deadline.
C21_Original ==
    [][\A t \in Tasks :
        ( /\ \E w, v \in 1..MaxPolls : Superseded(t, w, v)
          /\ \/ \E s \in StatusValues : Done(t, s)
             \/ Error(t, Boom)
             \/ Extend(t) )
        => /\ running'[t] = running[t]
           /\ entries'[running[t]] = entries[running[t]]]_vars

\* C22 as stated, its first part: in every reachable state, when Done(id, s),
\* Error(id) or an ErrorAtOnce(ids) with id among ids returns, id is in none
\* of pending, waitingOnDeps and running, wherever it was before.
C22_Original ==
    /\ \A id \in Tasks, s \in StatusValues :
           id \notin QueuedIn(finished(Q, <<id>>, s, NoErr))
    /\ \A id \in Tasks :
           id \notin QueuedIn(finished(Q, <<id>>, StatusFailure, Boom))
    /\ \A ids \in Batches(Tasks, MaxBatch) : \A id \in Range(ids) :
           id \notin QueuedIn(finished(Q, ids, StatusFailure, Boom))

====
